---- MODULE Spec2Model ----
(***************************************************************************)
(* Model of dadapy.id_discrete.IdDiscrete and of the helpers of            *)
(* dadapy._utils.discrete_functions that it calls.                         *)
(*                                                                         *)
(* Points are numbered 0..N-1 as in the source; numpy arrays are functions *)
(* over 0..len-1.  A ratio (a Python float) is the reduced fraction        *)
(* <<num, den>>; only ratios that are exact in binary floating point, or   *)
(* that fix_lk derives as ln/lk, occur.  A dimension estimate is the term  *)
(* that names the optimiser and the arguments handed to it.                *)
(***************************************************************************)
EXTENDS Integers, Sequences, FiniteSets, TLC

VARIABLES self, call, ncalls, frame

vars == <<self, call, ncalls, frame>>

(* ---------------------------------------------------------------- bounds *)
NPoints == 4
MaxCoord == 4
MaxR == 2
MaxK == 2
MaxCalls == 3
MaxFixes == 2
MaxRefine == 2
D_MAX == 2
MaxL == 4
MaxDim == 3
WinPoints == 11
MinWindow == 10

(* ------------------------------------------------------------- python    *)
\* A Python value carries its type: None, int, float, ndarray.
None == [t |-> "None"]
PyInt(x) == [t |-> "int", v |-> x]
PyFloat(r) == [t |-> "float", v |-> r]
Arr(f) == [t |-> "ndarray", v |-> f]

IsNone(x) == x.t = "None"
IsArray(x) == x.t = "ndarray"

\* x == y of two Python scalars
PyEq(x, y) == x.t = y.t /\ (x.t = "None" \/ x.v = y.v)

\* the outcome of a call: the estimator afterwards, the exception raised
\* ("None" when the call returned), the value returned, the arguments the call
\* handed to the optimiser (None when it did not reach it) and the mask
\* _my_mask gave the call (None when it did not get one)
Ok(s) == [self |-> s, exc |-> "None", ret |-> None, est |-> None, mask |-> None]
Return(s, r, e) == [self |-> s, exc |-> "None", ret |-> r, est |-> e, mask |-> None]
Raise(s, x) == [self |-> s, exc |-> x, ret |-> None, est |-> None, mask |-> None]
RaiseAfter(s, x, e) == [self |-> s, exc |-> x, ret |-> None, est |-> e, mask |-> None]

Abs(x) == IF x < 0 THEN -x ELSE x

RECURSIVE Gcd(_, _)
Gcd(a, b) == IF b = 0 THEN a ELSE Gcd(b, a % b)

\* float(a) / float(b) for integers a >= 0, b > 0
Frac(a, b) == <<a \div Gcd(a, b), b \div Gcd(a, b)>>

\* np.rint(l * r): round half to even
RInt(l, r) ==
    LET num == l * r[1]
        den == r[2]
        q == num \div den
        rem == num % den
    IN  IF 2 * rem < den THEN q
        ELSE IF 2 * rem > den THEN q + 1
        ELSE IF q % 2 = 0 THEN q ELSE q + 1

RECURSIVE SumOver(_, _)
SumOver(f, S) ==
    IF S = {} THEN 0
    ELSE LET x == CHOOSE y \in S : TRUE IN f[x] + SumOver(f, S \ {x})

\* a.sum() of an array
ArraySum(a) == SumOver(a, DOMAIN a)

\* number of entries of a boolean array that are True
TrueCount(m) == Cardinality({i \in DOMAIN m : m[i]})

\* a[mask]: the entries of a at the True places of mask, in order
RECURSIVE Compress(_, _, _)
Compress(a, m, i) ==
    IF i \notin DOMAIN m THEN << >>
    ELSE (IF m[i] THEN <<a[i]>> ELSE << >>) \o Compress(a, m, i + 1)

Take(a, m) ==
    LET s == Compress(a, m, 0) IN [j \in 0..(Len(s) - 1) |-> s[j + 1]]

\* np.unique(row): the distinct values, ascending
RECURSIVE SortSet(_)
SortSet(S) ==
    IF S = {} THEN << >>
    ELSE LET lo == CHOOSE x \in S : \A y \in S : x <= y
         IN <<lo>> \o SortSet(S \ {lo})

Unique(row) ==
    LET s == SortSet({row[c] : c \in DOMAIN row})
    IN  [j \in 0..(Len(s) - 1) |-> s[j + 1]]

\* np.unique(row, return_index=True)[1]: first place of each distinct value
UniqueIndex(row) ==
    LET u == Unique(row)
    IN  [j \in DOMAIN u |->
            CHOOSE c \in DOMAIN row :
                row[c] = u[j] /\ \A b \in DOMAIN row : row[b] = u[j] => c <= b]

Size(a) == Cardinality(DOMAIN a)

Ones(N) == [i \in 0..(N - 1) |-> TRUE]
Zeros(N) == [i \in 0..(N - 1) |-> 0]

(* ------------------------------------------------------------ distances  *)
\* appo of manhattan_distances, period None: distances of point i to all points
Appo(points, i) == [j \in DOMAIN points |-> Abs(points[i] - points[j])]

RECURSIVE CumSum(_, _)
CumSum(row, r) == IF r < 0 THEN 0 ELSE row[r] + CumSum(row, r - 1)

\* manhattan_distances without the cumulative sum
manhattan_distances_Counts(points, d_max) ==
    IF \E i \in DOMAIN points : \E j \in DOMAIN points : Appo(points, i)[j] > d_max
    THEN [exc |-> "AssertionError", dist_count |-> None]
    ELSE [exc |-> "None",
          dist_count |-> Arr([i \in DOMAIN points |->
              LET appo == Appo(points, i)
              IN  [r \in 0..d_max |->
                      Cardinality({j \in DOMAIN appo : appo[j] = r})]])]

\* manhattan_distances(points, d_max, None, None): the table of cumulative counts,
\* or the assertion error when a distance exceeds d_max
manhattan_distances(points, d_max) ==
    IF \E i \in DOMAIN points : \E j \in DOMAIN points : Appo(points, i)[j] > d_max
    THEN [exc |-> "AssertionError", dist_count |-> None]
    ELSE [exc |-> "None",
          dist_count |-> Arr([i \in DOMAIN points |->
              LET appo == Appo(points, i)
                  counts == [r \in 0..d_max |->
                                Cardinality({j \in DOMAIN appo : appo[j] = r})]
              IN  [r \in 0..d_max |-> CumSum(counts, r)]])]

\* the neighbours of point i by increasing distance (ties by index)
RECURSIVE ArgSort(_, _)
ArgSort(appo, S) ==
    IF S = {} THEN << >>
    ELSE LET lo == CHOOSE j \in S : \A h \in S :
                       appo[j] < appo[h] \/ (appo[j] = appo[h] /\ j <= h)
         IN <<lo>> \o ArgSort(appo, S \ {lo})

\* Base.compute_distances on dense storage: for every point the maxk + 1 nearest
\* points (the point itself among them, at distance 0), sorted, and their indices
DenseIndices(points, maxk) ==
    [i \in DOMAIN points |->
        LET order == ArgSort(Appo(points, i), DOMAIN points)
        IN  [c \in 0..maxk |-> order[c + 1]]]

DenseDistances(points, maxk) ==
    [i \in DOMAIN points |->
        [c \in 0..maxk |-> Appo(points, i)[DenseIndices(points, maxk)[i][c]]]]

(* --------------------------------------------------------------- setters *)
\* set_lk_ln without the test lk > ln
set_lk_ln_Unordered(s, lk, ln) ==
    IF ~(ln.t = "int" /\ ln.v >= 0) THEN Raise(s, "AssertionError")
    ELSE IF ~(lk.t = "int" /\ lk.v > 0) THEN Raise(s, "AssertionError")
    ELSE Ok([s EXCEPT !.ln = ln, !.lk = lk])

\* (np.int is taken to name the Python int, as in the numpy releases the
\* package was written for)
set_lk_ln(s, lk, ln) ==
    IF ~(ln.t = "int" /\ ln.v >= 0) THEN Raise(s, "AssertionError")
    ELSE IF ~(lk.t = "int" /\ lk.v > 0) THEN Raise(s, "AssertionError")
    ELSE IF ~(lk.v > ln.v) THEN Raise(s, "AssertionError")
    ELSE Ok([s EXCEPT !.ln = ln, !.lk = lk])

set_ratio(s, r) ==
    IF ~(r.t = "float" /\ 0 <= r.v[1] /\ r.v[1] < r.v[2])
    THEN Raise(s, "AssertionError")
    ELSE Ok([s EXCEPT !.ratio = r])

\* int(wi) as np.array(w, dtype=np.int) takes it: a float loses its fraction
AsInt(wi) == IF wi.t = "int" THEN wi.v ELSE wi.v[1] \div wi.v[2]

\* wi > 0 of an int or a non-negative float
Positive(wi) == IF wi.t = "int" THEN wi.v > 0 ELSE wi.v[1] > 0

\* the element the generator of set_w yields for wi: a list holding one bool
WeightTest(wi) == <<Positive(wi) /\ wi.t = "int">>

\* all(...) over lists: a list is true when it is not empty
set_w(s, w) ==
    IF ~(Len(w.v) = s.N /\ \A j \in 1..Len(w.v) : Len(WeightTest(w.v[j])) > 0)
    THEN Raise(s, "AssertionError")
    ELSE Ok([s EXCEPT !._weights = Arr([i \in 0..(s.N - 1) |-> AsInt(w.v[i + 1])])])

(* ---------------------------------------------------------------- fix_lk *)
\* DenseCount leaving out the neighbours at distance l itself
DenseCount_Below(s, i, row, l) ==
    LET within == {c \in DOMAIN row : row[c] < l}
    IN  IF ~s._is_w THEN Cardinality(within)
        ELSE SumOver([c \in DOMAIN row |-> s._weights.v[s.dist_indices.v[i][c]]],
                     within)

\* (distances[i] <= l).sum(), or the sum of the weights of those neighbours
DenseCount(s, i, row, l) ==
    LET within == {c \in DOMAIN row : row[c] <= l}
    IN  IF ~s._is_w THEN Cardinality(within)
        ELSE SumOver([c \in DOMAIN row |-> s._weights.v[s.dist_indices.v[i][c]]],
                     within)

\* FixLkMask keeping a point whose farthest stored distance is exactly lk
FixLkMask_AtLeast(s) ==
    IF s.maxk.v = s.N - 1 THEN Ones(s.N)
    ELSE [i \in 0..(s.N - 1) |-> s.distances.v[i][s.maxk.v] >= s.lk.v]

\* the mask of fix_lk on dense storage
FixLkMask(s) ==
    IF s.maxk.v = s.N - 1 THEN Ones(s.N)
    ELSE [i \in 0..(s.N - 1) |-> s.distances.v[i][s.maxk.v] > s.lk.v]

\* the counting part of fix_lk, lk and ln being set
FixLkCount(s) ==
    LET d == s.distances.v IN
    IF s._condensed
    THEN IF \E i \in DOMAIN d : s.ln.v \notin DOMAIN d[i]
         THEN Raise(s, "IndexError")
         ELSE LET s1 == [s EXCEPT !.n = Arr([i \in DOMAIN d |-> d[i][s.ln.v]])] IN
              IF \E i \in DOMAIN d : s.lk.v \notin DOMAIN d[i]
              THEN Raise(s1, "IndexError")
              ELSE Ok([s1 EXCEPT !.k = Arr([i \in DOMAIN d |-> d[i][s.lk.v]]),
                                 !._mask = Arr(Ones(s.N))])
    ELSE Ok([s EXCEPT
                !.k = Arr([i \in DOMAIN d |-> DenseCount(s, i, d[i], s.lk.v)]),
                !.n = Arr([i \in DOMAIN d |-> DenseCount(s, i, d[i], s.ln.v)]),
                !._k = PyInt(0),
                !._mask = Arr(FixLkMask(s))])

fix_lk(s, lk, ln) ==
    IF IsNone(s.distances) THEN Raise(s, "AssertionError")
    ELSE LET r1 == IF ~IsNone(lk) /\ ~IsNone(ln) THEN set_lk_ln(s, lk, ln)
                   ELSE IF ~IsNone(s.lk) /\ ~IsNone(s.ln) THEN Ok(s)
                   ELSE Raise(s, "AssertionError")
         IN  IF r1.exc # "None" THEN r1
             ELSE IF r1.self.lk.t # "int" \/ r1.self.ln.t # "int"
                  THEN Raise(r1.self, "TypeError")   \* float() of an array
             ELSE LET r2 == set_ratio(r1.self,
                                PyFloat(Frac(r1.self.ln.v, r1.self.lk.v)))
                  IN  IF r2.exc # "None" THEN r2 ELSE FixLkCount(r2.self)

(* ----------------------------------------------------------------- fix_k *)
\* ln_temp: np.rint(lk * ratio), one less when it equals lk
InnerRadius(lk_temp, ratio) ==
    LET ln_temp == RInt(lk_temp, ratio.v)
    IN  IF ln_temp = lk_temp THEN ln_temp - 1 ELSE ln_temp

\* FixKPoint asking for two distinct distances instead of three
FixKPoint_TwoShells(s, dist_i, k_eff) ==
    LET unique == Unique(dist_i)
        index == UniqueIndex(dist_i)
        u == Size(unique)
    IN  IF u < 2
        THEN [lk |-> 0, k |-> 0, ln |-> 0, n |-> 0, mask |-> FALSE]
        ELSE LET lk_temp == unique[u - 2]
                 ln_temp == InnerRadius(lk_temp, s.ratio)
             IN  [lk |-> lk_temp, k |-> index[u - 1], ln |-> ln_temp,
                  n |-> Cardinality({c \in DOMAIN dist_i : dist_i[c] <= ln_temp}),
                  mask |-> TRUE]

\* one turn of the loop of fix_k over the rows cut at k_eff + 1: the point's
\* lk, k, ln, n and mask entry
FixKPoint(s, dist_i, k_eff) ==
    LET unique == Unique(dist_i)
        index == UniqueIndex(dist_i)
        u == Size(unique)
    IN  IF u < 3
        THEN [lk |-> 0, k |-> 0, ln |-> 0, n |-> 0, mask |-> FALSE]
        ELSE LET lk_temp == unique[u - 2]
                 ln_temp == InnerRadius(lk_temp, s.ratio)
             IN  [lk |-> lk_temp, k |-> index[u - 1], ln |-> ln_temp,
                  n |-> Cardinality({c \in DOMAIN dist_i : dist_i[c] <= ln_temp}),
                  mask |-> TRUE]

FixKDense(s, k_eff) ==
    LET d == s.distances.v
        pt == [i \in DOMAIN d |->
                  FixKPoint(s, [c \in 0..k_eff |-> d[i][c]], k_eff)]
    IN  [s EXCEPT !.lk = Arr([i \in DOMAIN d |-> pt[i].lk]),
                  !.k = Arr([i \in DOMAIN d |-> pt[i].k]),
                  !.ln = Arr([i \in DOMAIN d |-> pt[i].ln]),
                  !.n = Arr([i \in DOMAIN d |-> pt[i].n]),
                  !._mask = Arr([i \in DOMAIN d |-> pt[i].mask]),
                  !._k = PyInt(k_eff)]

\* np.where(ddi <= k_eff)[0][-1]
LastWithin(ddi, k_eff) ==
    CHOOSE r \in DOMAIN ddi :
        ddi[r] <= k_eff /\ \A q \in DOMAIN ddi : ddi[q] <= k_eff => q <= r

\* lk being set, the rest of the condensed branch of fix_k and fix_k_shell
CondensedLookup(s, lk, kk) ==
    LET d == s.distances.v
        ln == [i \in DOMAIN d |-> RInt(lk[i], s.ratio.v)]
    IN  [s EXCEPT !.lk = Arr(lk),
                  !.ln = Arr(ln),
                  !.k = Arr([i \in DOMAIN d |-> d[i][lk[i]]]),
                  !.n = Arr([i \in DOMAIN d |-> d[i][ln[i]]]),
                  !._mask = Arr(Ones(s.N)),
                  !._k = kk]

fix_k(s, k_eff, ratio) ==
    IF IsNone(s.distances) THEN Raise(s, "AssertionError")
    ELSE LET r1 == set_ratio(s, ratio) IN
    IF r1.exc # "None" THEN r1
    ELSE LET s1 == r1.self
             d == s1.distances.v
         IN
    IF s1._condensed
    THEN IF IsNone(k_eff) THEN Raise(s1, "TypeError")
         ELSE IF \E i \in DOMAIN d : \A r \in DOMAIN d[i] : d[i][r] > k_eff.v
              THEN Raise(s1, "IndexError")
              ELSE Ok(CondensedLookup(s1,
                          [i \in DOMAIN d |-> LastWithin(d[i], k_eff.v)], k_eff))
    ELSE IF ~IsNone(k_eff) /\ ~(k_eff.v < s1.maxk.v) THEN Raise(s1, "AssertionError")
         ELSE Ok(FixKDense(s1, IF IsNone(k_eff) THEN s1.maxk.v - 1 ELSE k_eff.v))

(* ----------------------------------------------------------- fix_k_shell *)
\* np.where(ddi[1:] - ddi[:-1] != 0)[0]: the places where the cumulative count grows
Growth(ddi) ==
    LET g == SortSet({r \in DOMAIN ddi : (r + 1) \in DOMAIN ddi /\ ddi[r + 1] # ddi[r]})
    IN  [j \in 0..(Len(g) - 1) |-> g[j + 1]]

\* one turn of the loop of fix_k_shell on dense storage
FixKShellPoint(s, i, dist_i, k_shell) ==
    LET unique == Unique(dist_i)
        index == UniqueIndex(dist_i)
    IN  IF Size(unique) < k_shell + 1
        THEN [exc |-> "None", lk |-> 0, k |-> 0, ln |-> 0, n |-> 0, mask |-> FALSE]
        ELSE LET lk_temp == unique[k_shell]
                 ln_temp == InnerRadius(lk_temp, s.ratio)
             IN  IF s._is_w
                 THEN [exc |-> "None", lk |-> lk_temp, ln |-> ln_temp,
                       k |-> DenseCount(s, i, dist_i, lk_temp),
                       n |-> DenseCount(s, i, dist_i, ln_temp), mask |-> TRUE]
                 ELSE IF (k_shell + 1) \notin DOMAIN index
                 THEN [exc |-> "IndexError", lk |-> 0, k |-> 0, ln |-> 0, n |-> 0,
                       mask |-> TRUE]
                 ELSE [exc |-> "None", lk |-> lk_temp, ln |-> ln_temp,
                       k |-> index[k_shell + 1],
                       n |-> Cardinality({c \in DOMAIN dist_i : dist_i[c] <= ln_temp}),
                       mask |-> TRUE]

\* the loop of fix_k_shell from point i on; it stops at the first point that raises
RECURSIVE FixKShellLoop(_, _, _)
FixKShellLoop(s, i, k_shell) ==
    IF i >= s.N THEN Ok(s)
    ELSE LET pt == FixKShellPoint(s, i, s.distances.v[i], k_shell) IN
         IF pt.exc # "None" THEN Raise(s, pt.exc)
         ELSE FixKShellLoop(
                  [s EXCEPT !.lk.v[i] = pt.lk, !.k.v[i] = pt.k, !.ln.v[i] = pt.ln,
                            !.n.v[i] = pt.n, !._mask.v[i] = pt.mask],
                  i + 1, k_shell)

fix_k_shell(s, k_shell, ratio) ==
    IF IsNone(s.distances) THEN Raise(s, "AssertionError")
    ELSE LET r1 == set_ratio(s, ratio) IN
    IF r1.exc # "None" THEN r1
    ELSE LET s1 == r1.self
             d == s1.distances.v
         IN
    IF s1._condensed
    THEN IF ~(k_shell.v < Size(d[0])) THEN Raise(s1, "AssertionError")
         ELSE IF \E i \in DOMAIN d : k_shell.v \notin DOMAIN Growth(d[i])
              THEN Raise(s1, "IndexError")
              ELSE Ok(CondensedLookup(s1,
                          [i \in DOMAIN d |-> Growth(d[i])[k_shell.v]], k_shell))
    ELSE IF ~(k_shell.v < s1.maxk.v) THEN Raise(s1, "AssertionError")
         ELSE LET r2 == FixKShellLoop(
                            [s1 EXCEPT !.lk = Arr(Zeros(s1.N)), !.k = Arr(Zeros(s1.N)),
                                       !.ln = Arr(Zeros(s1.N)), !.n = Arr(Zeros(s1.N)),
                                       !._mask = Arr(Ones(s1.N))],
                            0, k_shell.v)
              IN  IF r2.exc # "None" THEN r2
                  ELSE Ok([r2.self EXCEPT !._k = k_shell])

(* -------------------------------------------------------------- _my_mask *)
PyList(q) == [t |-> "list", v |-> q]
PyTuple(q) == [t |-> "tuple", v |-> q]
PyStr(x) == [t |-> "str", v |-> x]

\* the point that index x of an array of length N addresses
PointOf(x, N) == IF x < 0 THEN x + N ELSE x

\* np.where(self._mask == True)[0]
ValidPoints(s) == {i \in DOMAIN s._mask.v : s._mask.v[i]}

\* _my_mask(subset): the masks the call can return (rng.choice draws any subset
\* of the requested size), or the exception it raises
MaskOk(m) == [exc |-> "None", mask |-> m]
MaskRaise(x) == [exc |-> x, mask |-> None]

IntSubsetMasks(s, subset) ==
    IF subset.v > TrueCount(s._mask.v) THEN {MaskOk(s._mask.v)}
    ELSE IF subset.v < 0 THEN {MaskRaise("ValueError")}
    ELSE {MaskOk([i \in DOMAIN s._mask.v |-> i \in idx]) :
              idx \in {c \in SUBSET ValidPoints(s) : Cardinality(c) = subset.v}}

\* ListSubsetMask without the product with the stored mask
ListSubsetMask_Unmasked(s, subset) ==
    IF Len(subset.v) = 0 THEN MaskRaise("IndexError")
    ELSE IF ~(\A j \in 1..Len(subset.v) : subset.v[j] < s.N)
    THEN MaskRaise("AssertionError")
    ELSE IF \E j \in 1..Len(subset.v) : subset.v[j] < -s.N
    THEN MaskRaise("IndexError")
    ELSE MaskOk([i \in DOMAIN s._mask.v |->
                    \E j \in 1..Len(subset.v) : PointOf(subset.v[j], s.N) = i])

ListSubsetMask(s, subset) ==
    IF Len(subset.v) = 0 THEN MaskRaise("IndexError")
    ELSE IF ~(\A j \in 1..Len(subset.v) : subset.v[j] < s.N)
    THEN MaskRaise("AssertionError")
    ELSE IF \E j \in 1..Len(subset.v) : subset.v[j] < -s.N
    THEN MaskRaise("IndexError")
    ELSE MaskOk([i \in DOMAIN s._mask.v |->
                    (\E j \in 1..Len(subset.v) : PointOf(subset.v[j], s.N) = i)
                    /\ s._mask.v[i]])

_my_mask(s, subset) ==
    IF IsNone(s._mask) THEN {MaskRaise("AssertionError")}
    ELSE IF IsNone(subset) THEN {MaskOk(s._mask.v)}
    ELSE IF subset.t = "list" THEN {ListSubsetMask(s, subset)}
    ELSE IF subset.t = "int" THEN IntSubsetMasks(s, subset)
    ELSE {MaskOk(s._mask.v)}

(* ------------------------------------------------------------ estimation *)
\* the functions discrete_functions.py defines
discrete_functions ==
    {"compute_discrete_volume", "_compute_derivative_discrete_vol",
     "_compute_jacobian", "_compute_binomial_logl", "binomial_cramer_rao",
     "_eq_to_find_0", "find_d_root", "find_d_likelihood", "beta_prior_d",
     "return_condensed_distances", "manhattan_distances",
     "hamming_distance_couple", "hamming_distances", "plot_pdf", "plot_cdf",
     "plot_id_pv"}

\* a.mean(): the fraction sum / size (0 / 0 is nan)
Mean(a) == [t |-> "float", v |-> <<ArraySum(a), Size(a)>>]
IsZero(x) == x.v[2] > 0 /\ x.v[1] = 0

\* TakeLess1 keeping the point itself in the count
TakeLess1_Raw(a, m) == Take(a, m)

\* a[mask] - 1
TakeLess1(a, m) == LET b == Take(a, m) IN [j \in DOMAIN b |-> b[j] - 1]

\* find_d_likelihood: 0 without running the minimiser when the (mean) inner count
\* is below 0.00001, else the minimiser's result for these arguments
find_d_likelihood(ln, lk, n, k, ww) ==
    LET n_check == IF IsArray(n) THEN Mean(n.v) ELSE n IN
    IF n_check.v[2] > 0 /\ n_check.v[1] * 100000 < n_check.v[2]
    THEN PyInt(0)
    ELSE [t |-> "SMin", ln |-> ln, lk |-> lk, n |-> n, k |-> k, ww |-> ww]

\* the arguments of the likelihood maximisation of a call
Likelihood(ln, lk, n, k, ww) ==
    [t |-> "likelihood", ln |-> ln, lk |-> lk, n |-> n, k |-> k, ww |-> ww]

\* compute_id_binomial_k from the mask on
EstimateK(s, mask, set_attr) ==
    IF IsNone(s.n) \/ IsNone(s.k) \/ ~IsArray(s.ln) \/ ~IsArray(s.lk)
    THEN Raise(s, "TypeError")
    ELSE
    LET n_eff == TakeLess1(s.n.v, mask)
        k_eff == TakeLess1(s.k.v, mask)
        ln_eff == Take(s.ln.v, mask)
        lk_eff == Take(s.lk.v, mask)
        ww == IF s._is_w THEN Arr(Take(s._weights.v, mask)) ELSE PyInt(1)
        args == Likelihood(Arr(ln_eff), Arr(lk_eff), Arr(n_eff), Arr(k_eff), ww)
    IN  IF IsZero(Mean(n_eff))
        THEN Return([s EXCEPT !.intrinsic_dim = PyInt(0),
                              !.intrinsic_dim_err = PyInt(0)],
                    PyTuple(<<PyInt(0), PyInt(0), Mean(lk_eff)>>), None)
        ELSE
        LET intrinsic_dim == find_d_likelihood(Arr(ln_eff), Arr(lk_eff), Arr(n_eff),
                                               Arr(k_eff), ww)
        IN  IF "profile_likelihood" \notin discrete_functions
            THEN RaiseAfter(s, "AttributeError", args)
            ELSE
            LET intrinsic_dim_err == [t |-> "profile_likelihood", args |-> args]
            IN  Return(IF set_attr
                       THEN [s EXCEPT !.intrinsic_dim = intrinsic_dim,
                                      !.intrinsic_dim_err = intrinsic_dim_err,
                                      !.intrinsic_dim_scale = Mean(lk_eff)]
                       ELSE s,
                       PyTuple(<<intrinsic_dim, intrinsic_dim_err, Mean(lk_eff)>>), args)

compute_id_binomial_k(s, k, shell, ratio, subset, set_attr) ==
    IF IsNone(s.distances) THEN {Raise(s, "AssertionError")}
    ELSE LET r1 == IF ~PyEq(k, s._k) \/ ~PyEq(ratio, s.ratio)
                   THEN IF shell THEN fix_k_shell(s, k, ratio) ELSE fix_k(s, k, ratio)
                   ELSE Ok(s)
         IN  IF r1.exc # "None" THEN {r1}
             ELSE {IF m.exc # "None" THEN Raise(r1.self, m.exc)
                   ELSE [EstimateK(r1.self, m.mask, set_attr)
                             EXCEPT !.mask = Arr(m.mask)] :
                       m \in _my_mask(r1.self, subset)}

\* sum(a * w) / float(N)
WeightedMean(a, w, N) ==
    [t |-> "float", v |-> <<SumOver([j \in DOMAIN a |-> a[j] * w[j]], DOMAIN a), N>>]

\* compute_id_binomial_lk from the mask on
EstimateLk(s, mask, method, set_attr) ==
    IF IsNone(s.n) \/ IsNone(s.k) THEN Raise(s, "TypeError")
    ELSE
    LET n_eff == TakeLess1(s.n.v, mask)
        k_eff == TakeLess1(s.k.v, mask)
        w_eff == IF s._is_w THEN Take(s._weights.v, mask) ELSE << >>
    IN  \* "if ~self._is_w" holds for both values of the Python bool _is_w
        IF IsZero(Mean(n_eff))
        THEN Return([s EXCEPT !.intrinsic_dim = PyInt(0),
                              !.intrinsic_dim_err = PyInt(0)],
                    PyTuple(<<PyInt(0), PyInt(0), s.lk>>), None)
        ELSE IF method = "mle"
        THEN LET N == IF s._is_w THEN ArraySum(w_eff) ELSE Size(k_eff)
                 k_mean == IF s._is_w THEN WeightedMean(k_eff, w_eff, N)
                           ELSE Mean(k_eff)
                 n_mean == IF s._is_w THEN WeightedMean(n_eff, w_eff, N)
                           ELSE Mean(n_eff)
                 ww == IF s._is_w THEN Arr(w_eff) ELSE PyInt(1)
                 args == Likelihood(s.ln, s.lk, n_mean, k_mean, ww)
                 intrinsic_dim == find_d_likelihood(s.ln, s.lk, n_mean, k_mean, ww)
                 intrinsic_dim_err ==
                     [t |-> "binomial_cramer_rao", d |-> intrinsic_dim, ln |-> s.ln,
                      lk |-> s.lk, N |-> N, k |-> k_mean]
             IN  IF s._is_w /\ N = 0 THEN Raise(s, "ZeroDivisionError")
                 ELSE IF IsArray(s.lk) \/ IsArray(s.ln)
                 THEN RaiseAfter(s, "ValueError", args)   \* _compute_jacobian: if l < ...
                 ELSE Return(IF set_attr
                             THEN [s EXCEPT !.intrinsic_dim = intrinsic_dim,
                                            !.intrinsic_dim_err = intrinsic_dim_err,
                                            !.intrinsic_dim_scale = s.lk]
                             ELSE s,
                             PyTuple(<<intrinsic_dim, intrinsic_dim_err, s.lk>>), args)
        ELSE IF method = "bayes"
        THEN LET k_tot == IF s._is_w THEN [j \in DOMAIN k_eff |-> w_eff[j] * k_eff[j]]
                          ELSE k_eff
                 n_tot == IF s._is_w THEN [j \in DOMAIN n_eff |-> w_eff[j] * n_eff[j]]
                          ELSE n_eff
                 args == Likelihood(s.ln, s.lk, Arr(n_tot), Arr(k_tot), PyInt(1))
                 post == [t |-> "beta_prior_d", k |-> Arr(k_tot), n |-> Arr(n_tot),
                          lk |-> s.lk, ln |-> s.ln]
                 intrinsic_dim == [post EXCEPT !.t = "beta_prior_d.E_d_emp"]
                 intrinsic_dim_err == [post EXCEPT !.t = "beta_prior_d.S_d_emp"]
             IN  IF IsArray(s.lk) \/ IsArray(s.ln)
                 THEN RaiseAfter(s, "ValueError", args)   \* p_d: _compute_jacobian
                 ELSE LET s1 == [s EXCEPT !.posterior = post]
                      IN  Return(IF set_attr
                                 THEN [s1 EXCEPT !.intrinsic_dim = intrinsic_dim,
                                                 !.intrinsic_dim_err = intrinsic_dim_err,
                                                 !.intrinsic_dim_scale = s.lk]
                                 ELSE s1,
                                 PyTuple(<<intrinsic_dim, intrinsic_dim_err, s.lk>>), args)
        ELSE Return(s, PyInt(0), None)

compute_id_binomial_lk(s, lk, ln, method, subset, set_attr) ==
    IF IsNone(s.distances) THEN {Raise(s, "AssertionError")}
    ELSE LET r1 == IF ~IsNone(lk) /\ ~IsNone(ln)
                   THEN IF IsArray(s.lk) \/ ~PyEq(lk, s.lk) \/ ~PyEq(ln, s.ln)
                        THEN LET r0 == set_lk_ln(s, lk, ln) IN
                             IF r0.exc # "None" THEN r0
                             ELSE fix_lk(r0.self, None, None)
                        ELSE Ok(s)
                   ELSE IF ~IsNone(s.lk) /\ ~IsNone(s.ln) THEN Ok(s)
                   ELSE Raise(s, "AssertionError")
         IN  IF r1.exc # "None" THEN {r1}
             ELSE {IF m.exc # "None" THEN Raise(r1.self, m.exc)
                   ELSE [EstimateLk(r1.self, m.mask, method, set_attr)
                             EXCEPT !.mask = Arr(m.mask)] :
                       m \in _my_mask(r1.self, subset)}

(* ----------------------------------------------------- compute_distances *)
\* hamming_distance_couple(a, b) of two points of one coordinate
hamming_distance_couple(a, b) == IF a # b THEN 1 ELSE 0

\* appo of hamming_distances: distances of point i to all points
HammingAppo(points, i) ==
    [j \in DOMAIN points |-> hamming_distance_couple(points[i], points[j])]

\* what the name _ holds where it has a value at all: the last value an
\* interactive session displayed
Stray == [t |-> "builtins._"]

\* hamming_distances(points, d_max, None): the table is built as in
\* manhattan_distances, then "return dist_count, _" reads a name the module
\* never binds: NameError, or the pair with builtins._ where a session set it
hamming_distances(points, d_max) ==
    IF \E i \in DOMAIN points : \E j \in DOMAIN points :
           HammingAppo(points, i)[j] > d_max
    THEN {[exc |-> "AssertionError", ret |-> None]}
    ELSE LET dist_count ==
                 Arr([i \in DOMAIN points |->
                     LET appo == HammingAppo(points, i)
                         counts == [r \in 0..d_max |->
                                       Cardinality({j \in DOMAIN appo : appo[j] = r})]
                     IN  [r \in 0..d_max |-> CumSum(counts, r)]])
         IN  {[exc |-> "NameError", ret |-> None],
              [exc |-> "None", ret |-> PyTuple(<<dist_count, Stray>>)]}

\* return_condensed_distances(points, metric, d_max): what the call returns
\* or raises, maxk_ind and period being None
return_condensed_distances(points, metric, d_max) ==
    IF metric = "manhattan"
    THEN LET r == manhattan_distances(points, d_max) IN
         {[exc |-> r.exc,
           ret |-> IF r.exc = "None" THEN PyTuple(<<r.dist_count, None>>) ELSE None]}
    ELSE IF metric = "hamming" THEN hamming_distances(points, d_max)
    ELSE {[exc |-> "None", ret |-> PyInt(0)]}

\* compute_distances(metric="manhattan", period=None, d_max=d_max), the storage
\* mode being the one given to the constructor; on condensed storage the pair
\* return_condensed_distances returns is the one of manhattan_distances
compute_distances(s, d_max) ==
    IF s._condensed
    THEN LET r == manhattan_distances(s.X, d_max) IN
         IF r.exc # "None" THEN Raise(s, r.exc)
         ELSE Ok([s EXCEPT !.distances = r.dist_count, !.dist_indices = None])
    ELSE Ok([s EXCEPT !.distances = Arr(DenseDistances(s.X, s.maxk.v)),
                      !.dist_indices = Arr(DenseIndices(s.X, s.maxk.v))])

(* ------------------------------------------------------------- the state *)
\* the datasets: NPoints points on the integer line 0..MaxCoord, in order, the
\* first at 0 (only differences of coordinates are ever used)
Datasets ==
    {X \in [0..(NPoints - 1) -> 0..MaxCoord] :
        X[0] = 0 /\ \A i \in 0..(NPoints - 2) : X[i] <= X[i + 1]}

\* the weights given to the constructor: none, or point 0 counted twice
WeightArgs == {None, Arr([i \in 0..(NPoints - 1) |-> IF i = 0 THEN 2 ELSE 1])}

\* maxk on dense storage: all the other points, or one less
MaxkArgs == {PyInt(NPoints - 1), PyInt(NPoints - 2)}

\* IdDiscrete.__init__
NewEstimator(X, maxk, condensed, weights) ==
    [X |-> X, N |-> Size(X), maxk |-> maxk, distances |-> None,
     dist_indices |-> None, _is_w |-> ~IsNone(weights), _weights |-> weights,
     lk |-> None, ln |-> None, k |-> None, n |-> None, ratio |-> None,
     _k |-> None, _mask |-> None, _condensed |-> condensed,
     intrinsic_dim |-> None, intrinsic_dim_err |-> None,
     intrinsic_dim_scale |-> None, posterior |-> None]

\* what the last call did: the exception it raised, what it returned, the mask
\* it used, what it handed to the optimiser and, for a call that got as far as
\* its mask, its arguments
Called(op, args, r) ==
    [op |-> op, args |-> IF IsNone(r.mask) THEN << >> ELSE args,
     exc |-> r.exc, ret |-> r.ret, est |-> r.est, mask |-> r.mask]

\* the radii of a call: none given, an outer radius with the inner radius one
\* below it, or a pair set_lk_ln rejects
RadiiArgs ==
    {<<None, None>>, <<PyInt(MaxR), PyInt(MaxR)>>} \cup
    {<<PyInt(lk), PyInt(lk - 1)>> : lk \in 1..MaxR}
KArgs == {PyInt(x) : x \in 1..MaxK}
\* the ratios: fix_k and fix_k_shell are given a float, compute_id_binomial_k a
\* float or its default
FloatRatios == {PyFloat(<<1, 2>>), PyFloat(<<3, 4>>)}
RatioArgs == {None} \cup FloatRatios
SubsetArgs == {None, PyList(<<0, 1>>)}
MethodArgs == {"mle", "bayes", "map"}

\* the datasets without repeated points
DistinctDatasets == {X \in Datasets : \A i \in 0..(NPoints - 2) : X[i] < X[i + 1]}

\* the datasets the estimations are run on: no repeated points, and the same
\* read from either end (evenly spaced, or with a gap in the middle)
MirrorDatasets ==
    {X \in DistinctDatasets :
        \A i \in 0..(NPoints - 1) : X[i] + X[NPoints - 1 - i] = X[NPoints - 1]}

InitOn(D, W) ==
    /\ \E X \in D, condensed \in BOOLEAN, weights \in W :
         \E maxk \in IF condensed THEN {None} ELSE MaxkArgs :
            self = NewEstimator(X, maxk, condensed, weights)
    /\ call = Called("__init__", << >>, Ok(self))
    /\ ncalls = 0
    /\ frame = None

Init == InitOn(MirrorDatasets, WeightArgs)

\* a call on the estimator with outcome r
Step(op, args, r) ==
    /\ self' = r.self
    /\ call' = Called(op, args, r)
    /\ ncalls' = ncalls + 1
    /\ frame' = frame

\* at most MaxCalls calls are made once the distances are there
MayCall == ncalls < MaxCalls

ComputeDistances ==
    /\ IsNone(self.distances)
    /\ LET r == compute_distances(self, MaxCoord) IN
       /\ self' = r.self
       /\ call' = Called("compute_distances", <<MaxCoord>>, r)
       /\ ncalls' = 0
       /\ frame' = frame

SetLkLn ==
    /\ MayCall
    /\ \E l \in RadiiArgs :
        LET lk == l[1]
            ln == l[2]
            r == set_lk_ln(self, lk, ln) IN
        Step("set_lk_ln", <<lk, ln>>, r)

FixLk ==
    /\ MayCall
    /\ \E l \in RadiiArgs :
        LET lk == l[1]
            ln == l[2]
            r == fix_lk(self, lk, ln) IN
        Step("fix_lk", <<lk, ln>>, r)

FixK ==
    /\ MayCall
    /\ \E k_eff \in KArgs \cup {None}, ratio \in FloatRatios :
        LET r == fix_k(self, k_eff, ratio) IN
        Step("fix_k", <<k_eff, ratio>>, r)

FixKShell ==
    /\ MayCall
    /\ \E k_shell \in KArgs, ratio \in FloatRatios :
        LET r == fix_k_shell(self, k_shell, ratio) IN
        Step("fix_k_shell", <<k_shell, ratio>>, r)

ComputeIdBinomialLk ==
    /\ MayCall
    /\ \E l \in RadiiArgs, method \in MethodArgs,
       subset \in SubsetArgs, set_attr \in BOOLEAN :
        \E r \in compute_id_binomial_lk(self, l[1], l[2], method, subset, set_attr) :
            Step("compute_id_binomial_lk", <<l[1], l[2], method, set_attr>>, r)

ComputeIdBinomialK ==
    /\ MayCall
    /\ \E k \in KArgs, shell \in BOOLEAN, ratio \in RatioArgs,
       subset \in SubsetArgs, set_attr \in BOOLEAN :
        \E r \in compute_id_binomial_k(self, k, shell, ratio, subset, set_attr) :
            Step("compute_id_binomial_k", <<k, shell, ratio, set_attr>>, r)

\* the subsets _my_mask is asked for: none, a number of points, a list of indices
\* (negative ones count from the end), or something else
MaskArgs ==
    {None, PyStr("all")}
    \cup {PyInt(x) : x \in (-1)..(NPoints + 1)}
    \cup {PyList(q) : q \in {<< >>, <<0, 1>>, <<1, NPoints - 1>>, <<-1, 0>>,
                              <<2, 2>>, <<0, NPoints>>, <<-(NPoints + 1)>>}}

MyMask ==
    /\ MayCall
    /\ \E subset \in MaskArgs :
        \E m \in _my_mask(self, subset) :
            /\ self' = self
            /\ call' = [op |-> "_my_mask", args |-> <<subset>>, exc |-> m.exc,
                        ret |-> None, est |-> None,
                        mask |-> IF m.exc = "None" THEN Arr(m.mask) ELSE None]
            /\ ncalls' = ncalls + 1
            /\ frame' = frame

Next ==
    \/ ComputeDistances
    \/ SetLkLn
    \/ FixLk
    \/ FixK
    \/ FixKShell
    \/ ComputeIdBinomialLk
    \/ ComputeIdBinomialK

Spec == Init /\ [][Next]_vars

(* ---------------------------------------------- the fixing routines alone *)
\* every dataset, repeated points included, under the three fixing routines
InitFix == InitOn(Datasets, WeightArgs)

\* at most MaxFixes of them in a row
NextFix ==
    \/ ComputeDistances
    \/ ncalls < MaxFixes /\ FixLk
    \/ ncalls < MaxFixes /\ FixK
    \/ ncalls < MaxFixes /\ FixKShell

SpecFix == InitFix /\ [][NextFix]_vars

(* ------------------------------------------------- the mask of a subset *)
\* the datasets without repeated points, unweighted (_my_mask reads no weight)
InitMask == InitOn(DistinctDatasets, {None})

NextMask ==
    \/ ComputeDistances
    \/ FixLk
    \/ FixK
    \/ FixKShell
    \/ MyMask

SpecMask == InitMask /\ [][NextMask]_vars

(* ------------------------------------------- the estimate at fixed radii *)
\* compute_id_binomial_lk right after construction, a setter or a fixing
\* routine (fix_k leaves arrays in lk and ln): at most MaxFixes calls in a row
InitLk == InitOn(MirrorDatasets, WeightArgs)

NextLk ==
    \/ ComputeDistances
    \/ ncalls < MaxFixes /\ SetLkLn
    \/ ncalls < MaxFixes /\ FixLk
    \/ ncalls < MaxFixes /\ FixK
    \/ ncalls < MaxFixes /\ ComputeIdBinomialLk

SpecLk == InitLk /\ [][NextLk]_vars

(* ------------------------------------------------------------ the weights *)
\* the weights set_w is given: ones, with the first a positive integer, zero,
\* a negative integer or a float, or one entry too few or too many
WArgs ==
    {PyList([j \in 1..NPoints |-> IF j = 1 THEN w0 ELSE PyInt(1)]) :
        w0 \in {PyInt(1), PyInt(2), PyInt(0), PyInt(-1), PyFloat(<<3, 2>>)}}
    \cup {PyList([j \in 1..len |-> PyInt(1)]) : len \in {NPoints - 1, NPoints + 1}}

SetW ==
    /\ MayCall
    /\ \E w \in WArgs :
        LET r == set_w(self, w) IN
        /\ self' = r.self
        /\ call' = [op |-> "set_w", args |-> <<w>>, exc |-> r.exc,
                    ret |-> None, est |-> None, mask |-> None]
        /\ ncalls' = ncalls + 1
        /\ frame' = frame

InitW == InitOn(DistinctDatasets, WeightArgs)

\* set_w and the routine that reads the weights, at most MaxFixes calls in a row
NextW ==
    \/ ComputeDistances
    \/ ncalls < MaxFixes /\ SetW
    \/ ncalls < MaxFixes /\ FixLk

SpecW == InitW /\ [][NextW]_vars

(* ------------------------------------------------- distances with period *)
\* the farthest distance compute_distances is asked to keep
DMaxArgs == 1..MaxCoord

\* np.zeros((N, maxk_ind)) and index_i[:maxk_ind] with the array np.full(dims,
\* period) as maxk_ind: numpy takes an array of one element for an index or
\* refuses it, by release; an array of several elements it refuses
IndexOutcomes(dims) == IF dims = 1 THEN {"index", "TypeError"} ELSE {"TypeError"}

\* compute_distances(metric="manhattan", period=period, d_max=d_max) on
\* condensed storage, period an int: line 131 hands self.period to
\* return_condensed_distances as its fourth argument, which is maxk_ind, and
\* manhattan_distances runs with period None.  The outcomes, by numpy release.
compute_distances_period(s, d_max, period) ==
    {IF how = "TypeError" THEN Raise(s, "TypeError")
     ELSE LET r == manhattan_distances(s.X, d_max) IN
          IF period.v > s.N THEN Raise(s, "ValueError")   \* indexes[i] = index_i[:maxk_ind]
          ELSE IF r.exc # "None" THEN Raise(s, r.exc)
          ELSE Ok([s EXCEPT !.distances = r.dist_count,
                            !.dist_indices =
                                Arr(DenseIndices(s.X, period.v - 1))]) :
        how \in IndexOutcomes(1)}

\* the periods asked for
PeriodArgs == {PyInt(x) : x \in 2..MaxCoord}

ComputeDistancesPeriod ==
    /\ IsNone(self.distances) /\ self._condensed
    /\ \E d_max \in DMaxArgs, period \in PeriodArgs :
        \E r \in compute_distances_period(self, d_max, period) :
            /\ self' = r.self
            /\ call' = [op |-> "compute_distances", args |-> <<d_max, period>>,
                        exc |-> r.exc, ret |-> None, est |-> None, mask |-> None]
            /\ ncalls' = 0
            /\ frame' = frame

(* ------------------------------------------------ the table of distances *)
\* compute_distances(d_max=d_max); a call that raised can be made again
ComputeDistancesUpTo ==
    /\ IsNone(self.distances)
    /\ \E d_max \in DMaxArgs :
        LET r == compute_distances(self, d_max) IN
        /\ self' = r.self
        /\ call' = [op |-> "compute_distances", args |-> <<d_max>>, exc |-> r.exc,
                    ret |-> None, est |-> None, mask |-> None]
        /\ ncalls' = 0
        /\ frame' = frame

InitDist == InitOn(Datasets, {None})

\* the distances for any d_max, then the routine that reads the table by radius
NextDist ==
    \/ ComputeDistancesUpTo
    \/ ComputeDistancesPeriod
    \/ ncalls < MaxFixes /\ FixLk

SpecDist == InitDist /\ [][NextDist]_vars

(* ----------------------------------------------------------- beta_prior_d *)
\* The search for the domain of the posterior.  Lengths on the d axis are
\* counted in steps of the finest grid the machine can hold, 10^-MaxRefine;
\* D_MAX is 70.0 in the source, and D_MIN, about 1e-7, is taken as 0.  The
\* posterior enters by the stretch [lo, hi) of the axis on which p_d is not 0:
\* it is empty when ln >= lk, where the ratio of volumes p is 1 or more and
\* the beta density 0.
RECURSIVE Pow10(_)
Pow10(e) == IF e = 0 THEN 1 ELSE 10 * Pow10(e - 1)

Finest == Pow10(MaxRefine)

\* np.arange(d_left, d_right, dx) after c divisions of dx by 10, d_right being
\* D_MAX + 1.0 + d_left
Range(c) ==
    {g \in 0..((D_MAX + 1) * Finest - 1) : g % Pow10(MaxRefine - c) = 0}

\* (P != 0).sum() on that grid
Elements(lo, hi, c) == Cardinality({g \in Range(c) : lo <= g /\ g < hi})

\* the stretches on which the density is not 0
Supports ==
    {<<lo, lo + width>> : lo \in 0..(D_MAX * Finest),
                          width \in {0, 1, 3, 7, 25, 30, 3 * Finest}}

\* lines 323-330: the first grid, dx = 1.0
BetaGrid ==
    /\ frame.t = "call"
    /\ frame' = [t |-> "while", lo |-> frame.lo, hi |-> frame.hi, counter |-> 0,
                 elements |-> Elements(frame.lo, frame.hi, 0)]
    /\ UNCHANGED <<self, call, ncalls>>

\* lines 332-338: one turn of "while elements < 3"; the test reads elements
\* alone
BetaRefine ==
    /\ frame.t = "while" /\ frame.elements < 3
    /\ frame.counter < MaxRefine
    /\ frame' = [frame EXCEPT
                    !.counter = frame.counter + 1,
                    !.elements = Elements(frame.lo, frame.hi, frame.counter + 1)]
    /\ UNCHANGED <<self, call, ncalls>>

\* lines 333-335 on the turn after the finest grid: the loop goes on, and the
\* grid, ten times larger, cannot be allocated
BetaExhaust ==
    /\ frame.t = "while" /\ frame.elements < 3
    /\ frame.counter = MaxRefine
    /\ frame' = [frame EXCEPT !.t = "raise"]
    /\ UNCHANGED <<self, call, ncalls>>

\* lines 340-369: the loop is left, the domain narrowed, the moments returned
BetaNarrow ==
    /\ frame.t = "while" /\ frame.elements >= 3
    /\ frame' = [frame EXCEPT !.t = "return"]
    /\ UNCHANGED <<self, call, ncalls>>

\* a call of beta_prior_d on its own
InitBeta ==
    /\ self = None
    /\ call = [op |-> "beta_prior_d", args |-> << >>, exc |-> "None", ret |-> None,
               est |-> None, mask |-> None]
    /\ ncalls = 0
    /\ \E sup \in Supports : frame = [t |-> "call", lo |-> sup[1], hi |-> sup[2]]

NextBeta ==
    \/ BetaGrid
    \/ BetaRefine
    \/ BetaExhaust
    \/ BetaNarrow

\* the function runs on: a step that can be taken is taken
SpecBeta == InitBeta /\ [][NextBeta]_vars /\ WF_vars(NextBeta)

(* ------------------------------------------------ compute_discrete_volume *)
\* Exact rationals <<num, den>>, den > 0, in lowest terms, stand for the floats
\* of the volume functions.
QNorm(a, b) ==
    LET g == Gcd(Abs(a), Abs(b))
        sg == IF b < 0 THEN -1 ELSE 1
    IN  <<(sg * a) \div g, (sg * b) \div g>>

QInt(x) == <<x, 1>>

\* sums and products are reduced before they are multiplied out
QAdd(x, y) ==
    LET g == Gcd(x[2], y[2])
    IN  QNorm(x[1] * (y[2] \div g) + y[1] * (x[2] \div g), (x[2] \div g) * y[2])

QNeg(x) == <<-x[1], x[2]>>
QSub(x, y) == QAdd(x, QNeg(y))

QMul(x, y) ==
    LET g1 == Gcd(Abs(x[1]), y[2])
        g2 == Gcd(Abs(y[1]), x[2])
    IN  QNorm((x[1] \div g1) * (y[1] \div g2), (x[2] \div g2) * (y[2] \div g1))

QDiv(x, y) == QMul(x, QNorm(y[2], y[1]))

QLess(x, y) ==
    LET g == Gcd(x[2], y[2]) IN x[1] * (y[2] \div g) < y[1] * (x[2] \div g)

\* scipy.special.binom(d + l, d) for an integer l >= 0: the product of (d + i) / i
\* (a product that has reached 0 stays 0)
RECURSIVE Binom(_, _)
Binom(d, l) ==
    IF l = 0 THEN QInt(1)
    ELSE LET below == Binom(d, l - 1)
         IN  IF below[1] = 0 THEN below
             ELSE QMul(below, QDiv(QAdd(d, QInt(l)), QInt(l)))

\* scipy.special.hyp2f1(a, b, c, z) for b a negative integer or 0: the sum of
\* the series, which ends with the term of index -b or with the first term
\* that is 0; st is the pair of the k-th term and the sum of the terms up to it
RECURSIVE Hyp2f1From(_, _, _, _, _, _)
Hyp2f1From(a, b, c, z, k, st) ==
    IF k = -b \/ st[1][1] = 0 THEN st[2]
    ELSE Hyp2f1From(a, b, c, z, k + 1,
             LET tk == QMul(st[1],
                            QDiv(QMul(QMul(QAdd(a, QInt(k)), QInt(b + k)), z),
                                 QMul(QAdd(c, QInt(k)), QInt(k + 1))))
             IN  <<tk, QAdd(st[2], tk)>>)

\* the volume with the hypergeometric factor left out
compute_discrete_volume_Simplex(l, d) == Binom(d, l)

\* compute_discrete_volume(l, d): binom(d + l, d) * hyp2f1(-d, -l, -d - l, -1)
compute_discrete_volume(l, d) ==
    QMul(Binom(d, l),
         Hyp2f1From(QSub(QInt(0), d), -l, QSub(QInt(-l), d), QInt(-1), 0,
                    <<QInt(1), QInt(1)>>))

\* the radii and the dimensions, in quarters, the volume is asked for
VolumeArgs == {<<l, QNorm(m, 4)>> : l \in 0..MaxL, m \in 1..(4 * MaxDim)}

\* a function of discrete_functions called on its own
CallOf(fn, args) == [t |-> "call", fn |-> fn, args |-> args]

InitFn(fn, Args) ==
    /\ self = None
    /\ call = [op |-> fn, args |-> << >>, exc |-> "None", ret |-> None,
               est |-> None, mask |-> None]
    /\ ncalls = 0
    /\ \E args \in Args : frame = CallOf(fn, args)

Volume ==
    /\ frame.t = "call" /\ frame.fn = "compute_discrete_volume"
    /\ frame' = [t |-> "return", fn |-> frame.fn, args |-> frame.args,
                 ret |-> compute_discrete_volume(frame.args[1], frame.args[2])]
    /\ UNCHANGED <<self, call, ncalls>>

InitVol == InitFn("compute_discrete_volume", VolumeArgs)

NextVol == Volume

SpecVol == InitVol /\ [][NextVol]_vars

(* ------------------------------------------- find_d_root, find_d_likelihood *)
\* _eq_to_find_0(d, ln, lk, n, k) at an integer dimension d
eq_to_find_0(d, ln, lk, n, k) ==
    QSub(QDiv(compute_discrete_volume(ln, QInt(d)),
              compute_discrete_volume(lk, QInt(d))),
         QDiv(n, k))

\* The points of the bracket the sign of _eq_to_find_0 is known at: 0 is the
\* lower end D_MIN + eps, where the ratio of the volumes is just below 1,
\* 1..MaxDim are the integer dimensions, MaxDim + 1 is the upper end, where the
\* ratio is below every positive n / k of the counts drawn here.
BracketPoints == 0..(MaxDim + 1)

SignAt(i, ln, lk, n, k) ==
    IF i = 0 THEN (IF QLess(n, k) THEN 1 ELSE -1)
    ELSE IF i = MaxDim + 1 THEN (IF n[1] > 0 THEN -1 ELSE 1)
    ELSE LET f == eq_to_find_0(i, ln, lk, n, k)
         IN  IF f[1] > 0 THEN 1 ELSE IF f[1] < 0 THEN -1 ELSE 0

\* a result of the solver: the root lies from lo to hi (lo = hi: it is lo)
RootIn(lo, hi) == [t |-> "root", lo |-> lo, hi |-> hi]
Raised(x) == [t |-> "raise", exc |-> x]

\* scipy.optimize.root_scalar with a bracket: ValueError unless the function
\* changes sign over the bracket, else a point the function changes sign at
root_scalar(ln, lk, n, k) ==
    IF SignAt(0, ln, lk, n, k) * SignAt(MaxDim + 1, ln, lk, n, k) > 0
    THEN {Raised("ValueError")}
    ELSE {RootIn(i, i) : i \in {j \in BracketPoints : SignAt(j, ln, lk, n, k) = 0}}
         \cup {RootIn(i, i + 1) : i \in {j \in 0..MaxDim :
                   SignAt(j, ln, lk, n, k) * SignAt(j + 1, ln, lk, n, k) < 0}}

\* find_d_root running the solver whatever the count
find_d_root_Always(ln, lk, n, k) == root_scalar(ln, lk, n, k)

\* find_d_root(ln, lk, n, k): 0 for n < 0.00001, else the solver's root
find_d_root(ln, lk, n, k) ==
    IF QLess(n, <<1, 100000>>) THEN {PyInt(0)} ELSE root_scalar(ln, lk, n, k)

\* the pairs (ln, lk) the functions are called with
RootRadii == {<<5, 10>>, <<1, 2>>, <<2, 4>>}

\* the counts n / k that are exactly the ratio of the volumes at a dimension
ExactCounts(ln, lk) ==
    {<<compute_discrete_volume(ln, QInt(d)), compute_discrete_volume(lk, QInt(d))>> :
        d \in 1..MaxDim}

RootArgs ==
    {<<r[1], r[2], c[1], c[2]>> :
        r \in RootRadii,
        c \in {<<n, QInt(k)>> : n \in {QInt(0), <<1, 1000000>>}, k \in 1..NPoints}
              \cup {<<QInt(n), QInt(k)>> : n \in 1..NPoints, k \in 1..NPoints}}
    \cup UNION {{<<r[1], r[2], c[1], c[2]>> : c \in ExactCounts(r[1], r[2])} :
                   r \in RootRadii}

\* the inner counts find_d_likelihood gets: a mean, or the array of the points
LikelihoodCounts ==
    {PyFloat(QInt(0)), PyFloat(<<1, 1000000>>), PyFloat(<<1, 100000>>),
     PyFloat(<<3, 2>>)}
    \cup {Arr(f) : f \in [0..1 -> 0..1]}

LikelihoodArgs ==
    {<<r[1], r[2], n, PyFloat(QInt(k)), PyInt(1)>> :
        r \in RootRadii, n \in LikelihoodCounts, k \in 2..3}

FindDRoot ==
    /\ frame.t = "call" /\ frame.fn = "find_d_root"
    /\ \E r \in find_d_root(frame.args[1], frame.args[2], frame.args[3],
                            frame.args[4]) :
           frame' = [t |-> "return", fn |-> frame.fn, args |-> frame.args,
                     ret |-> r]
    /\ UNCHANGED <<self, call, ncalls>>

FindDLikelihood ==
    /\ frame.t = "call" /\ frame.fn = "find_d_likelihood"
    /\ frame' = [t |-> "return", fn |-> frame.fn, args |-> frame.args,
                 ret |-> find_d_likelihood(frame.args[1], frame.args[2],
                             frame.args[3], frame.args[4], frame.args[5])]
    /\ UNCHANGED <<self, call, ncalls>>

InitRoot ==
    \/ InitFn("find_d_root", RootArgs)
    \/ InitFn("find_d_likelihood", LikelihoodArgs)

NextRoot == FindDRoot \/ FindDLikelihood

SpecRoot == InitRoot /\ [][NextRoot]_vars

(* ---------------------------------------------- the mode after a fixing *)
\* compute_id_binomial_k: k != self._k or ratio != self.ratio, the test that
\* sends the call to fix_k or fix_k_shell
Refixes(s, k, ratio) == ~PyEq(k, s._k) \/ ~PyEq(ratio, s.ratio)

\* compute_local_density: the branch self._k == 0 selects
LocalDensityBranch(s) ==
    IF s._k = PyInt(0) THEN "fixed lk" ELSE "fixed k"

(* ------------------------------------------------------ model validation *)
\* the p-values the Kolmogorov-Smirnov test of a call can give, one below and
\* one above alpha (the model's counts are drawn at random)
PValues == {PyFloat(<<1, 100>>), PyFloat(<<1, 2>>)}
AlphaArgs == {PyFloat(<<1, 20>>)}

\* the two samples handed to the test: the counts of the used points and the
\* counts drawn from the binomial model on k with probability p
KSOf(n, k, p) == [t |-> "KS", n |-> n, k |-> k, p |-> p]

\* V(ln, d) / V(lk, d) at the stored dimension
VolumeRatio(ln, lk, d) == [t |-> "p", ln |-> ln, lk |-> lk, d |-> d]

\* model_validation_full from the mask on, the plots being the default ones
ValidateFull(s, mask) ==
    IF IsNone(s.n) \/ IsNone(s.k) THEN {Raise(s, "TypeError")}
    ELSE
    LET n_eff == TakeLess1(s.n.v, mask)
        k_eff == TakeLess1(s.k.v, mask)
    IN  IF IsArray(s.ln) /\ ~IsArray(s.lk) THEN {Raise(s, "TypeError")}
        ELSE IF ~IsArray(s.ln) /\ (IsNone(s.ln) \/ IsNone(s.lk))
        THEN {Raise(s, "TypeError")}
        ELSE
        LET p == IF IsArray(s.ln)
                 THEN VolumeRatio(Arr(Take(s.ln.v, mask)), Arr(Take(s.lk.v, mask)),
                                  s.intrinsic_dim)
                 ELSE VolumeRatio(s.ln, s.lk, s.intrinsic_dim)
            test == KSOf(Arr(n_eff), Arr(k_eff), p)
        IN  IF Size(n_eff) = 0 THEN {RaiseAfter(s, "ValueError", test)}
            ELSE {Return(s, pv, test) : pv \in PValues}

\* model_validation_full raising on a p-value that is not above alpha
model_validation_full_Strict(s, alpha, subset) ==
    IF IsNone(s.intrinsic_dim) THEN {Return(s, PyInt(0), None)}
    ELSE UNION {IF m.exc # "None" THEN {Raise(s, m.exc)}
                ELSE {IF r.exc = "None" /\ ~QLess(alpha.v, r.ret.v)
                      THEN [RaiseAfter(s, "ValueError", r.est)
                                EXCEPT !.mask = Arr(m.mask)]
                      ELSE [r EXCEPT !.mask = Arr(m.mask)] :
                          r \in ValidateFull(s, m.mask)} :
                   m \in _my_mask(s, subset)}

\* model_validation_full(alpha, subset): 0 when no dimension is there, else
\* the p-value of the test
model_validation_full(s, alpha, subset) ==
    IF IsNone(s.intrinsic_dim) THEN {Return(s, PyInt(0), None)}
    ELSE UNION {IF m.exc # "None" THEN {Raise(s, m.exc)}
                ELSE {[r EXCEPT !.mask = Arr(m.mask)] :
                          r \in ValidateFull(s, m.mask)} :
                   m \in _my_mask(s, subset)}

\* a window that takes its lower boundary in as well
InWindow_Closed(win, i, v) == win[i] <= v /\ v <= win[i + 1]

\* np.logical_and(win[i] < v, v <= win[i + 1])
InWindow(win, i, v) == win[i] < v /\ v <= win[i + 1]

\* the places of the array vals that fall in window i
WindowPoints(win, i, vals) == {j \in DOMAIN vals : InWindow(win, i, vals[j])}

\* a[mask_i]
Pick(a, idx) == Take(a, [j \in DOMAIN a |-> j \in idx])

\* the row of a window: its centre, the dimension found in it, the counts the
\* dimension and the test were computed on and their number; points are the
\* places of the window among the used points
RowOf(win, i, idx, id_i, ni, ki) ==
    [window |-> i, centre |-> QNorm(win[i + 1] + win[i], 2), id |-> id_i,
     points |-> idx, n |-> Arr(ni), k |-> Arr(ki), elements |-> Size(ni)]

\* the loop of R_mod_val from window i on, obs being the rows so far
RECURSIVE RModValFrom(_, _, _, _, _, _)
RModValFrom(s, k_win, n_eff, k_eff, i, obs) ==
    IF i > Len(k_win) - 1 THEN {Return(s, None, PyList(obs))}
    ELSE
    LET idx == WindowPoints(k_win, i, k_eff)
        ki == Pick(k_eff, idx)
        ni == Pick(n_eff, idx)
    IN  IF Size(ni) < MinWindow
        THEN RModValFrom(s, k_win, n_eff, k_eff, i + 1, obs)
        ELSE IF IsNone(s.ln) \/ IsNone(s.lk)
        THEN {RaiseAfter(s, "TypeError", PyList(obs))}
        ELSE IF IsArray(s.ln) \/ IsArray(s.lk)
        THEN {RaiseAfter(s, "ValueError", PyList(obs))}   \* the sign of an array
        ELSE UNION
             {IF id_i.t = "raise" THEN {RaiseAfter(s, id_i.exc, PyList(obs))}
              ELSE RModValFrom(s, k_win, n_eff, k_eff, i + 1,
                       Append(obs, RowOf(k_win, i, idx, id_i, ni, ki))) :
                 id_i \in find_d_root(s.ln.v, s.lk.v,
                                      QNorm(ArraySum(ni), Size(ni)),
                                      QNorm(ArraySum(ki), Size(ki)))}

\* R_mod_val(k_win, subset): the table of the observables
R_mod_val(s, k_win, subset) ==
    UNION {IF m.exc # "None" THEN {Raise(s, m.exc)}
           ELSE IF IsNone(s.n) \/ IsNone(s.k) THEN {Raise(s, "TypeError")}
           ELSE {[r EXCEPT !.mask = Arr(m.mask)] :
                    r \in RModValFrom(s, k_win, Take(s.n.v, m.mask),
                                      Take(s.k.v, m.mask), 1, << >>)} :
              m \in _my_mask(s, subset)}

\* the loop of K_mod_val from window i on, obs being the rows so far
RECURSIVE KModValFrom(_, _, _, _, _, _, _, _)
KModValFrom(s, R_win, n_eff, k_eff, ln_eff, lk_eff, i, obs) ==
    IF i > Len(R_win) - 1 THEN Return(s, None, PyList(obs))
    ELSE
    LET idx == WindowPoints(R_win, i, lk_eff)
        ki == Pick(k_eff, idx)
        ni == Pick(n_eff, idx)
        lki == Pick(lk_eff, idx)
        lni == Pick(ln_eff, idx)
    IN  IF Size(ni) < MinWindow
        THEN KModValFrom(s, R_win, n_eff, k_eff, ln_eff, lk_eff, i + 1, obs)
        ELSE IF IsNone(s.ratio) THEN RaiseAfter(s, "TypeError", PyList(obs))
        ELSE KModValFrom(s, R_win, n_eff, k_eff, ln_eff, lk_eff, i + 1,
                 Append(obs,
                        RowOf(R_win, i, idx,
                              find_d_likelihood(Arr(lni), Arr(lki), Arr(ni), Arr(ki),
                                                PyInt(1)),
                              ni, ki)))

\* K_mod_val(R_win, subset): the table of the observables
K_mod_val(s, R_win, subset) ==
    {IF m.exc # "None" THEN Raise(s, m.exc)
     ELSE IF IsNone(s.n) \/ IsNone(s.k) \/ ~IsArray(s.ln) \/ ~IsArray(s.lk)
     THEN Raise(s, "TypeError")
     ELSE [KModValFrom(s, R_win, TakeLess1(s.n.v, m.mask), TakeLess1(s.k.v, m.mask),
                       Take(s.ln.v, m.mask), Take(s.lk.v, m.mask), 1, << >>)
               EXCEPT !.mask = Arr(m.mask)] :
        m \in _my_mask(s, subset)}

\* the datasets of the validation: WinPoints points on two sites, 0 and c, the
\* last of them at MaxCoord or with the others
WindowDatasets ==
    {[i \in 0..(WinPoints - 1) |->
         IF i < a THEN 0 ELSE IF i < WinPoints - o THEN c ELSE MaxCoord] :
        a \in 1..WinPoints, c \in 1..MaxCoord, o \in 0..1}

\* the boundaries of the windows: strictly increasing, two or three of them
WinBounds == {-1, 0, 1, WinPoints - 1, WinPoints}
WinArgs ==
    {<<a, b>> : a, b \in WinBounds} \cup {<<a, b, c>> : a, b, c \in WinBounds}

IncreasingWinArgs ==
    {w \in WinArgs : \A i \in 1..(Len(w) - 1) : w[i] < w[i + 1]}

\* every point is kept on dense storage
InitVal ==
    /\ \E X \in WindowDatasets, condensed \in BOOLEAN :
         self = NewEstimator(X, IF condensed THEN None ELSE PyInt(WinPoints - 1),
                             condensed, None)
    /\ call = Called("__init__", << >>, Ok(self))
    /\ ncalls = 0
    /\ frame = None

\* compute_id_binomial_lk(lk, ln) with its defaults
EstimateMle ==
    \E l \in RadiiArgs :
        \E r \in compute_id_binomial_lk(self, l[1], l[2], "mle", None, TRUE) :
            Step("compute_id_binomial_lk", <<l[1], l[2], "mle", TRUE>>, r)

ModelValidationFull ==
    \E alpha \in AlphaArgs, subset \in SubsetArgs :
        \E r \in model_validation_full(self, alpha, subset) :
            Step("model_validation_full", <<alpha, subset>>, r)

RModVal ==
    \E k_win \in IncreasingWinArgs :
        \E r \in R_mod_val(self, k_win, None) :
            Step("R_mod_val", <<k_win>>, r)

KModVal ==
    \E R_win \in IncreasingWinArgs :
        \E r \in K_mod_val(self, R_win, None) :
            Step("K_mod_val", <<R_win>>, r)

ValidationOps == {"model_validation_full", "R_mod_val", "K_mod_val"}

\* one call that fixes the counts or estimates, at most, then one validation
Prepared == ~IsNone(self.distances) /\ call.op \notin ValidationOps

NextVal ==
    \/ ComputeDistances
    \/ ncalls = 0 /\ Prepared /\ FixLk
    \/ ncalls = 0 /\ Prepared /\ FixK
    \/ ncalls = 0 /\ Prepared /\ FixKShell
    \/ ncalls = 0 /\ Prepared /\ EstimateMle
    \/ Prepared /\ ModelValidationFull
    \/ Prepared /\ RModVal
    \/ Prepared /\ KModVal

SpecVal == InitVal /\ [][NextVal]_vars

(* ------------------------------------------ return_condensed_distances *)
\* the metrics asked for: the two the function names and another
MetricArgs == {"manhattan", "hamming", "euclidean"}

TableArgs ==
    {<<X, metric, d_max>> : X \in Datasets, metric \in MetricArgs, d_max \in DMaxArgs}

ReturnCondensedDistances ==
    /\ frame.t = "call" /\ frame.fn = "return_condensed_distances"
    /\ \E r \in return_condensed_distances(frame.args[1], frame.args[2],
                                           frame.args[3]) :
           frame' = [t |-> "return", fn |-> frame.fn, args |-> frame.args,
                     exc |-> r.exc, ret |-> r.ret]
    /\ UNCHANGED <<self, call, ncalls>>

InitTable == InitFn("return_condensed_distances", TableArgs)

NextTable == ReturnCondensedDistances

SpecTable == InitTable /\ [][NextTable]_vars

(* ================================================================ claims *)
\* the counts a call of compute_id_binomial_k handed to the maximisation,
\* against the estimator state st that a fixing routine left
UsesCountsOf(st) ==
    /\ \A i \in DOMAIN call.mask.v : call.mask.v[i] => st._mask.v[i]
    /\ call.est.lk = Arr(Take(st.lk.v, call.mask.v))
    /\ call.est.ln = Arr(Take(st.ln.v, call.mask.v))
    /\ call.est.k = Arr(TakeLess1(st.k.v, call.mask.v))
    /\ call.est.n = Arr(TakeLess1(st.n.v, call.mask.v))

\* C1: whenever compute_id_binomial_k(k, shell, ratio) hands the counts of some
\* points to the likelihood maximisation, whatever was called before, they are
\* the lk, ln, k, n and mask of the fixing routine shell selects (fix_k_shell
\* when shell is true, fix_k otherwise) run for that k and ratio.
C1_CountsOfSelectedRoutine ==
    (/\ call.op = "compute_id_binomial_k"
     /\ ~IsNone(call.est)
     /\ TrueCount(call.mask.v) > 0) =>
        LET k == call.args[1]
            shell == call.args[2]
            ratio == call.args[3]
            fresh == IF shell THEN fix_k_shell(self, k, ratio)
                     ELSE fix_k(self, k, ratio)
        IN  fresh.exc = "None" /\ UsesCountsOf(fresh.self)

\* C2: whenever compute_id_binomial_lk returns an estimate, whatever was called
\* before, the stored radii lk and ln are scalars and the k, n and mask it
\* used are the ones fix_lk derives for those stored radii.
C2_CountsOfStoredRadii ==
    (call.op = "compute_id_binomial_lk" /\ call.exc = "None" /\ ~IsNone(call.est)) =>
        LET fresh == fix_lk(self, None, None)
        IN  /\ fresh.exc = "None"
            /\ self.k = fresh.self.k
            /\ self.n = fresh.self.n
            /\ self._mask = fresh.self._mask
            /\ \A i \in DOMAIN call.mask.v : call.mask.v[i] => fresh.self._mask.v[i]

\* the estimator on condensed storage for the dataset and weights of s, its
\* distances computed
CondensedTwin(s) ==
    compute_distances(NewEstimator(s.X, None, TRUE, s._weights), MaxCoord).self

\* a and b give every point valid in both the same lk, ln, k and n
SameCounts(a, b) ==
    \A i \in 0..(a.N - 1) :
        (a._mask.v[i] /\ b._mask.v[i]) =>
            /\ a.lk.v[i] = b.lk.v[i]
            /\ a.ln.v[i] = b.ln.v[i]
            /\ a.k.v[i] = b.k.v[i]
            /\ a.n.v[i] = b.n.v[i]

\* C3: after fix_k(k_eff, ratio) on dense storage whose maxk spans the dataset,
\* fix_k on condensed storage of the same dataset with the same k_eff and ratio,
\* where it returns, gives every point valid in both the same lk, ln, k and n.
C3_FixKSameInBothStorages ==
    (/\ call.op = "fix_k" /\ call.exc = "None"
     /\ ~self._condensed /\ self.maxk.v = self.N - 1) =>
        LET other == fix_k(CondensedTwin(self), self._k, self.ratio)
        IN  other.exc = "None" => SameCounts(self, other.self)

\* C4: after fix_k_shell(k_shell, ratio) on dense storage, fix_k_shell on
\* condensed storage of the same dataset with the same k_shell and ratio, where
\* it returns, gives every point valid in both the same lk, ln, k and n.
C4_FixKShellSameInBothStorages ==
    (call.op = "fix_k_shell" /\ call.exc = "None" /\ ~self._condensed) =>
        LET other == fix_k_shell(CondensedTwin(self), self._k, self.ratio)
        IN  other.exc = "None" => SameCounts(self, other.self)

\* C5: a call of compute_id_binomial_k that reaches the estimate with a
\* non-zero mean of the inner counts less one over the used points returns a
\* triple (dimension, error, mean lk), and with set_attr=True leaves the
\* returned dimension in intrinsic_dim.
C5_CompletesWithTriple ==
    (/\ call.op = "compute_id_binomial_k"
     /\ ~IsNone(call.mask)
     /\ IsArray(self.n) /\ IsArray(self.k) /\ IsArray(self.lk) /\ IsArray(self.ln)
     /\ TrueCount(call.mask.v) > 0
     /\ ~IsZero(Mean(TakeLess1(self.n.v, call.mask.v)))) =>
        /\ call.exc = "None"
        /\ call.ret.t = "tuple" /\ Len(call.ret.v) = 3
        /\ call.ret.v[3] = Mean(Take(self.lk.v, call.mask.v))
        /\ call.args[4] => self.intrinsic_dim = call.ret.v[1]

\* C6: _my_mask(subset) with an integer subset >= 0 returns a mask with exactly
\* subset true entries, all at valid points, when subset does not exceed the
\* number of valid points, and raises when it does.
C6_ExactCountOrError ==
    (/\ call.op = "_my_mask" /\ ~IsNone(self._mask)
     /\ call.args[1].t = "int" /\ call.args[1].v >= 0) =>
        IF call.args[1].v <= TrueCount(self._mask.v)
        THEN /\ call.exc = "None"
             /\ TrueCount(call.mask.v) = call.args[1].v
             /\ \A i \in DOMAIN call.mask.v : call.mask.v[i] => self._mask.v[i]
        ELSE call.exc # "None"

\* C7: a call of _my_mask leaves the stored mask as it was; the mask it returns
\* is true only at valid points; and for a list of indices it is true exactly
\* at the valid points the list names (a negative index counting from the end).
C7_MaskWithinValid ==
    [][call'.op = "_my_mask" =>
          /\ self'._mask = self._mask
          /\ call'.exc = "None" =>
                /\ \A i \in DOMAIN call'.mask.v : call'.mask.v[i] => self._mask.v[i]
                /\ call'.args[1].t = "list" =>
                      \A i \in DOMAIN call'.mask.v :
                          call'.mask.v[i] <=>
                              /\ self._mask.v[i]
                              /\ \E j \in DOMAIN call'.args[1].v :
                                    \/ call'.args[1].v[j] = i
                                    \/ call'.args[1].v[j] + self.N = i]_vars

\* C7 happens: a list naming a valid and an invalid point has been masked
C7_Witness ==
    /\ call.op = "_my_mask" /\ call.exc = "None" /\ call.args[1].t = "list"
    /\ \E j \in DOMAIN call.args[1].v :
          call.args[1].v[j] \in 0..(self.N - 1) /\ ~self._mask.v[call.args[1].v[j]]
    /\ \E i \in DOMAIN call.mask.v : call.mask.v[i]

\* the farthest of the distances stored for point i is within l
AllStoredWithin(s, i, l) ==
    \A c \in DOMAIN s.distances.v[i] : s.distances.v[i][c] <= l

RadiusOf(r, i) == IF IsArray(r) THEN r.v[i] ELSE r.v

\* the sum of the weights of the neighbours of point i within l: of the stored
\* neighbours on dense storage, of all the points on condensed storage
WeightWithin(s, i, l) ==
    IF s._condensed
    THEN SumOver([j \in 0..(s.N - 1) |-> s._weights.v[j]],
                 {j \in 0..(s.N - 1) : Abs(s.X[j] - s.X[i]) <= l})
    ELSE SumOver([c \in DOMAIN s.distances.v[i] |->
                     s._weights.v[s.dist_indices.v[i][c]]],
                 {c \in DOMAIN s.distances.v[i] : s.distances.v[i][c] <= l})

\* C9: on an estimator with weights, after fix_lk, fix_k or fix_k_shell
\* returned, k[i] and n[i] of every valid point are the sums of the weights of
\* its neighbours within lk and within ln.
C9_CountsAreWeightSums ==
    (/\ call.op \in {"fix_lk", "fix_k", "fix_k_shell"} /\ call.exc = "None"
     /\ self._is_w) =>
        \A i \in 0..(self.N - 1) :
            self._mask.v[i] =>
                /\ self.k.v[i] = WeightWithin(self, i, RadiusOf(self.lk, i))
                /\ self.n.v[i] = WeightWithin(self, i, RadiusOf(self.ln, i))

\* C10: after fix_k or fix_k_shell returned (the ratio is then in [0, 1)),
\* every valid point has 0 <= ln[i] < lk[i].
C10_InnerBelowOuter ==
    (call.op \in {"fix_k", "fix_k_shell"} /\ call.exc = "None") =>
        \A i \in 0..(self.N - 1) :
            self._mask.v[i] => (0 <= self.ln.v[i] /\ self.ln.v[i] < self.lk.v[i])

\* the distinct distances stored for point i, ascending
ShellsOf(s, i) == SortSet({s.distances.v[i][c] : c \in DOMAIN s.distances.v[i]})

\* the number of distances stored for point i that do not exceed l
StoredWithin(s, i, l) ==
    Cardinality({c \in DOMAIN s.distances.v[i] : s.distances.v[i][c] <= l})

\* C11: fix_k_shell(k_shell, ratio) on dense storage without weights, the
\* distances computed and k_shell < maxk, returns without raising; afterwards
\* point i is invalid exactly when its row has fewer than k_shell + 1 distinct
\* distances, and every other point has lk the k_shell-th distinct distance
\* (counting from 0) and k the number of stored distances within that lk.
C11_ShellCompletes ==
    (/\ call.op = "fix_k_shell" /\ ~self._condensed /\ ~self._is_w
     /\ call.exc # "AssertionError") =>
        /\ call.exc = "None"
        /\ \A i \in 0..(self.N - 1) :
              LET shells == ShellsOf(self, i)
              IN  /\ self._mask.v[i] <=> Len(shells) >= self._k.v + 1
                  /\ self._mask.v[i] =>
                        /\ self.lk.v[i] = shells[self._k.v + 1]
                        /\ self.k.v[i] = StoredWithin(self, i, self.lk.v[i])

\* the distinct distances among the first k + 1 stored for point i, ascending
WindowShells(s, i, k) == SortSet({s.distances.v[i][c] : c \in 0..k})

SelfRemoved(a, m) == LET b == Take(a, m) IN [j \in DOMAIN b |-> b[j] - 1]

\* sum of a[j] * w[j]
Dot(a, w) == SumOver([j \in DOMAIN a |-> a[j] * w[j]], DOMAIN a)

\* the counts that compute_id_binomial_lk hands on are made of the
\* self-removed counts n1 and k1 of the used points: their means (weighted by
\* w with weights) for 'mle', the counts themselves (times w) for 'bayes'
HandsOn(est, method, is_w, n1, k1, w) ==
    IF method = "mle"
    THEN IF is_w
         THEN /\ est.n.v = <<Dot(n1, w), ArraySum(w)>>
              /\ est.k.v = <<Dot(k1, w), ArraySum(w)>>
         ELSE /\ est.n.v = <<ArraySum(n1), Size(n1)>>
              /\ est.k.v = <<ArraySum(k1), Size(k1)>>
    ELSE IF is_w
         THEN /\ est.n.v = [j \in DOMAIN n1 |-> w[j] * n1[j]]
              /\ est.k.v = [j \in DOMAIN k1 |-> w[j] * k1[j]]
         ELSE est.n.v = n1 /\ est.k.v = k1

\* C13: a call of compute_id_binomial_lk that got its mask, with or without
\* weights and for any method: when some point is used and the inner counts
\* less one of the used points are all zero (their mean is zero), it returns
\* exactly (0, 0, lk) and hands nothing to the optimiser or the Bayesian
\* routine; and whatever it hands on is made of the counts k - 1 and n - 1 of
\* the used points.
C13_SelfRemovedAndShortCircuit ==
    (/\ call.op = "compute_id_binomial_lk" /\ ~IsNone(call.mask)
     /\ IsArray(self.n) /\ IsArray(self.k)) =>
        LET n1 == SelfRemoved(self.n.v, call.mask.v)
            k1 == SelfRemoved(self.k.v, call.mask.v)
            w == IF self._is_w THEN Take(self._weights.v, call.mask.v) ELSE << >>
        IN  /\ (Size(n1) > 0 /\ \A j \in DOMAIN n1 : n1[j] = 0) =>
                  /\ call.exc = "None"
                  /\ call.ret = PyTuple(<<PyInt(0), PyInt(0), self.lk>>)
                  /\ IsNone(call.est)
            /\ ~IsNone(call.est) =>
                  HandsOn(call.est, call.args[3], self._is_w, n1, k1, w)

\* C13 happens: an estimator with weights returned (0, 0, lk) for 'mle'
C13_Witness ==
    /\ call.op = "compute_id_binomial_lk" /\ call.exc = "None"
    /\ self._is_w /\ call.args[3] = "mle"
    /\ call.ret = PyTuple(<<PyInt(0), PyInt(0), self.lk>>)
    /\ TrueCount(call.mask.v) > 1

\* the last call is an estimation that got its mask (its arguments are then
\* recorded, set_attr the fourth) and returned a triple
ReturnedTriple ==
    /\ call.op \in {"compute_id_binomial_lk", "compute_id_binomial_k"}
    /\ call.exc = "None" /\ ~IsNone(call.mask)
    /\ call.ret.t = "tuple" /\ Len(call.ret.v) = 3

\* C14: after compute_id_binomial_lk or compute_id_binomial_k with
\* set_attr=True returned a triple (dimension, error, scale), the stored
\* intrinsic_dim, intrinsic_dim_err and intrinsic_dim_scale are that triple,
\* the return of dimension 0 for a zero mean inner count included.
C14_StoredIsReturned ==
    (ReturnedTriple /\ call.args[4]) =>
        /\ self.intrinsic_dim = call.ret.v[1]
        /\ self.intrinsic_dim_err = call.ret.v[2]
        /\ self.intrinsic_dim_scale = call.ret.v[3]

\* C15: a call of compute_id_binomial_lk or compute_id_binomial_k with
\* set_attr=False leaves the stored intrinsic_dim, intrinsic_dim_err and
\* intrinsic_dim_scale as they were, on every path.
C15_SetAttrFalseKeepsEstimate ==
    [][(/\ call'.op \in {"compute_id_binomial_lk", "compute_id_binomial_k"}
        /\ Len(call'.args) = 4 /\ ~call'.args[4]) =>
            /\ self'.intrinsic_dim = self.intrinsic_dim
            /\ self'.intrinsic_dim_err = self.intrinsic_dim_err
            /\ self'.intrinsic_dim_scale = self.intrinsic_dim_scale]_vars

\* C16: when the mask an estimation got selects no point, the call returns
\* without raising, with dimension 0, and hands nothing to the optimiser.
C16_EmptySelectionFallsBack ==
    (/\ call.op \in {"compute_id_binomial_lk", "compute_id_binomial_k"}
     /\ ~IsNone(call.mask) /\ TrueCount(call.mask.v) = 0
     /\ IsArray(self.n) /\ IsArray(self.k)) =>
        /\ call.exc = "None"
        /\ IsNone(call.est)
        /\ call.ret.t = "tuple" /\ call.ret.v[1] = PyInt(0)

\* radii a caller may pass: nothing, a float, an integer from -1 on
RadiusProbes == {None, PyFloat(<<1, 1>>)} \cup {PyInt(x) : x \in (-1)..(MaxR + 1)}

\* integers with lk > 0, ln >= 0 and lk > ln
ProperRadii(lk, ln) ==
    /\ lk.t = "int" /\ ln.t = "int"
    /\ lk.v > 0 /\ ln.v >= 0 /\ lk.v > ln.v

\* the call with outcome r raised and left k, n and the mask of s as they were
FailedBeforeCounts(s, r) ==
    /\ r.exc # "None"
    /\ r.self.k = s.k /\ r.self.n = s.n /\ r.self._mask = s._mask

\* C17: in every state the estimator reaches, set_lk_ln(lk, ln) returns exactly
\* for integers with lk > 0, ln >= 0 and lk > ln, and then stores them; a
\* rejected call raises and leaves the estimator as it was; and fix_lk(lk, ln)
\* and compute_id_binomial_lk(lk, ln) with integers lk <= ln raise with k, n
\* and the mask unchanged.
C17_RejectedRadiiChangeNothing ==
    \A lk \in RadiusProbes, ln \in RadiusProbes :
        LET r == set_lk_ln(self, lk, ln) IN
        /\ r.exc = "None" <=> ProperRadii(lk, ln)
        /\ ProperRadii(lk, ln) => (r.self.lk = lk /\ r.self.ln = ln)
        /\ ~ProperRadii(lk, ln) => r.self = self
        /\ (lk.t = "int" /\ ln.t = "int" /\ lk.v <= ln.v) =>
              /\ FailedBeforeCounts(self, fix_lk(self, lk, ln))
              /\ \A method \in MethodArgs, subset \in SubsetArgs :
                    \A c \in compute_id_binomial_lk(self, lk, ln, method, subset, TRUE) :
                        FailedBeforeCounts(self, c)

\* C17 happens: fix_lk was given radii that set_lk_ln rejects, on an
\* estimator that had counts and proper radii already, and they are still there
C17_Witness ==
    /\ call.op = "fix_lk" /\ call.exc = "AssertionError"
    /\ ~IsNone(self.distances)
    /\ IsArray(self.k) /\ IsArray(self._mask)
    /\ ProperRadii(self.lk, self.ln)

\* C18: set_w(w) returns, storing the weights, exactly when w has N entries
\* that are all positive integers, and raises otherwise.
C18_OnlyPositiveIntegerWeights ==
    call.op = "set_w" =>
        LET w == call.args[1].v
            proper == /\ Len(w) = self.N
                      /\ \A j \in 1..Len(w) : w[j].t = "int" /\ w[j].v > 0
        IN  /\ call.exc = "None" <=> proper
            /\ proper => self._weights = Arr([i \in 0..(self.N - 1) |-> w[i + 1].v])

\* the distance of points i and j of the dataset
Between(s, i, j) == Abs(s.X[i] - s.X[j])

\* C20: compute_distances(d_max) on condensed storage raises the assertion
\* error, storing nothing, exactly when some pair of points is farther apart
\* than d_max; otherwise the table has columns 0..d_max, every row is
\* non-decreasing, entry [i, r] is the number of points within distance r of
\* point i, column 0 is at least 1 and the last column is N.
C20_CumulativeCounts ==
    (call.op = "compute_distances" /\ Len(call.args) = 1 /\ self._condensed) =>
        LET d_max == call.args[1]
            far == \E i, j \in 0..(self.N - 1) : Between(self, i, j) > d_max
        IN  IF far
            THEN call.exc = "AssertionError" /\ IsNone(self.distances)
            ELSE /\ call.exc = "None"
                 /\ DOMAIN self.distances.v = 0..(self.N - 1)
                 /\ \A i \in 0..(self.N - 1) :
                       LET row == self.distances.v[i] IN
                       /\ DOMAIN row = 0..d_max
                       /\ \A r \in 0..(d_max - 1) : row[r] <= row[r + 1]
                       /\ \A r \in 0..d_max :
                             row[r] = Cardinality({j \in 0..(self.N - 1) :
                                                      Between(self, i, j) <= r})
                       /\ row[0] >= 1
                       /\ row[d_max] = self.N

\* C20 happens: a table was built for a dataset with a repeated point and with
\* d_max the largest distance, so that a row starts above 1, stays level
\* somewhere and grows somewhere
C20_Witness ==
    /\ call.op = "compute_distances" /\ Len(call.args) = 1 /\ self._condensed
    /\ call.exc = "None"
    /\ \E i, j \in 0..(self.N - 1) : Between(self, i, j) = call.args[1]
    /\ \E i \in 0..(self.N - 1) :
          LET row == self.distances.v[i] IN
          /\ row[0] > 1
          /\ \E r \in 0..(call.args[1] - 1) : row[r] = row[r + 1]
          /\ \E r \in 0..(call.args[1] - 1) : row[r] < row[r + 1]

\* C19: every call of beta_prior_d leaves the loop that refines the grid,
\* through a ceiling on its turns if need be, and returns, whatever the
\* density, one that is 0 at every point of every grid included.
C19_BetaPriorTerminates == <>(frame.t = "return")

\* the Manhattan distance of points i and j on the line closed with period P
PeriodicBetween(s, i, j, P) ==
    LET a == Abs(s.X[i] - s.X[j]) % P IN IF 2 * a > P THEN P - a ELSE a

\* C21: compute_distances(metric='manhattan', period=P, d_max) on condensed
\* storage, P an integer and no two points farther apart than d_max, returns
\* and leaves the table of the distances under period P: entry [i, r] is the
\* number of points within periodic distance r of point i.
C21_PeriodIsUsed ==
    (/\ call.op = "compute_distances" /\ Len(call.args) = 2
     /\ \A i, j \in 0..(self.N - 1) : Between(self, i, j) <= call.args[1]) =>
        /\ call.exc = "None"
        /\ \A i \in 0..(self.N - 1) : \A r \in 0..call.args[1] :
              self.distances.v[i][r] =
                  Cardinality({j \in 0..(self.N - 1) :
                      PeriodicBetween(self, i, j, call.args[2].v) <= r})

\* the number of points of the integer lattice of dimension d within Manhattan
\* distance l of the origin, counted coordinate by coordinate
RECURSIVE LatticePoints(_, _)
LatticePoints(d, l) ==
    IF d = 0 THEN 1
    ELSE SumOver([x \in (-l)..l |-> LatticePoints(d - 1, l - Abs(x))], (-l)..l)

\* C22: compute_discrete_volume(l, d), for an integer l >= 0 and d > 0, is the
\* number of lattice points within Manhattan radius l when d is an integer, is
\* below its value at l + 1, and for l >= 1 is below its value at d + 1/4.
C22_VolumeCountsLattice ==
    (frame.t = "return" /\ frame.fn = "compute_discrete_volume") =>
        LET l == frame.args[1]
            d == frame.args[2]
        IN  /\ d[2] = 1 => frame.ret = QInt(LatticePoints(d[1], l))
            /\ QLess(frame.ret, compute_discrete_volume(l + 1, d))
            /\ l >= 1 => QLess(frame.ret,
                                compute_discrete_volume(l, QAdd(d, <<1, 4>>)))

\* C22 happens: the volume of radius 2 in dimension 2 has been computed, 13
C22_Witness ==
    /\ frame.t = "return" /\ frame.fn = "compute_discrete_volume"
    /\ frame.args = <<2, QInt(2)>> /\ frame.ret = QInt(13)

\* the inner count of a returned call of find_d_root or find_d_likelihood
InnerCount ==
    IF frame.fn = "find_d_root" THEN frame.args[3]
    ELSE IF IsArray(frame.args[3]) THEN Mean(frame.args[3].v).v
    ELSE frame.args[3].v

\* the dimensions the counts of the call are the exact ratio of the volumes at
ExactAt ==
    {d \in 1..MaxDim :
        QDiv(frame.args[3], frame.args[4])
            = QDiv(compute_discrete_volume(frame.args[1], QInt(d)),
                   compute_discrete_volume(frame.args[2], QInt(d)))}

\* C23: for lk = 10, ln = 5, find_d_root returns d when n / k is exactly the
\* ratio of the volumes at d; find_d_root and find_d_likelihood return 0, the
\* solver not run, when the (mean) inner count is below 0.00001.
C23_RoundTripAndShortCircuit ==
    frame.t = "return" =>
        /\ (frame.fn = "find_d_root" /\ frame.args[1] = 5 /\ frame.args[2] = 10
                => \A d \in ExactAt : frame.ret = RootIn(d, d))
        /\ (InnerCount[2] > 0 /\ QLess(InnerCount, <<1, 100000>>)
                => frame.ret = PyInt(0))

C23_Witness ==
    /\ frame.t = "return" /\ frame.fn = "find_d_root"
    /\ frame.args[1] = 5 /\ frame.args[2] = 10
    /\ 2 \in ExactAt /\ frame.ret = RootIn(2, 2)

\* C24: after fix_lk has returned, on dense and on condensed storage, _k is 0
\* and lk and ln are scalars: compute_id_binomial_k with any k >= 1 goes
\* through fix_k or fix_k_shell again and compute_local_density takes the
\* branch of the fixed radius.
C24_FixLkEntersFixedRadius ==
    (call.op = "fix_lk" /\ call.exc = "None") =>
        /\ self._k = PyInt(0)
        /\ self.lk.t = "int" /\ self.ln.t = "int"
        /\ \A k \in KArgs, ratio \in RatioArgs : Refixes(self, k, ratio)
        /\ LocalDensityBranch(self) = "fixed lk"

\* the step is a call of fix_k or fix_k_shell, on an estimator that has its
\* distances and with a ratio set_ratio accepts, that an assertion stopped:
\* k_eff or k_shell was not below maxk
RejectedFixK ==
    /\ call'.op \in {"fix_k", "fix_k_shell"}
    /\ call'.exc = "AssertionError"
    /\ ncalls' = ncalls + 1
    /\ ~IsNone(self.distances)

\* C25: a call of fix_k or fix_k_shell rejected because k_eff or k_shell is not
\* below maxk leaves lk, ln, k, n, ratio, the mask and _k as they were.
C25_RejectedFixKChangesNothing ==
    [][RejectedFixK =>
          /\ self'.lk = self.lk /\ self'.ln = self.ln
          /\ self'.k = self.k /\ self'.n = self.n
          /\ self'.ratio = self.ratio
          /\ self'._mask = self._mask /\ self'._k = self._k]_vars

\* C26: model_validation_full, R_mod_val and K_mod_val leave the estimator as
\* it was; model_validation_full returns 0 when no dimension is there, and the
\* p-value of the test it ran, be it below alpha or above.
C26_ValidationReadsOnly ==
    [][(call'.op \in ValidationOps /\ ncalls' = ncalls + 1) =>
          /\ self' = self
          /\ call'.op = "model_validation_full" =>
                /\ IsNone(self.intrinsic_dim) =>
                      call'.exc = "None" /\ call'.ret = PyInt(0)
                /\ (~IsNone(call'.est) /\ Size(call'.est.n.v) > 0) =>
                      call'.exc = "None" /\ call'.ret \in PValues]_vars

C26_Witness ==
    /\ call.op = "model_validation_full" /\ call.exc = "None"
    /\ ~IsNone(self.intrinsic_dim)
    /\ QLess(call.ret.v, call.args[1].v)

\* the values the windows of the call are taken over: the counts k of the used
\* points as R_mod_val reads them, the radii lk of the used points in K_mod_val
WindowedValues ==
    IF call.op = "R_mod_val" THEN Take(self.k.v, call.mask.v)
    ELSE Take(self.lk.v, call.mask.v)

\* the used points with boundary[i] < value <= boundary[i + 1]
HeldBy(i) ==
    {j \in DOMAIN WindowedValues :
        call.args[1][i] < WindowedValues[j] /\ WindowedValues[j] <= call.args[1][i + 1]}

C28_ValidationRemovesSelf ==
    (call.op \in ValidationOps /\ ~IsNone(call.mask) /\ ~IsNone(call.est)) =>
        LET n1 == TakeLess1(self.n.v, call.mask.v)
            k1 == TakeLess1(self.k.v, call.mask.v)
        IN  IF call.op = "model_validation_full"
            THEN call.est.n = Arr(n1) /\ call.est.k = Arr(k1)
            ELSE \A a \in 1..Len(call.est.v) :
                    LET row == call.est.v[a] IN
                    /\ row.n = Arr(Pick(n1, row.points))
                    /\ row.k = Arr(Pick(k1, row.points))

\* the distance of two points of one coordinate under the metric of the call
MetricDistance(a, b) ==
    IF frame.args[2] = "hamming" THEN (IF a = b THEN 0 ELSE 1) ELSE Abs(a - b)

\* C29: return_condensed_distances with metric 'hamming', as with 'manhattan',
\* and no maxk_ind returns the pair of the table and None, entry [i, r] of the
\* table being the number of points at distance <= r from point i; it does
\* not raise (no distance being above d_max).
C29_BothMetricsReturnTable ==
    LET X == frame.args[1]
        d_max == frame.args[3]
    IN  (/\ frame.t = "return"
         /\ frame.args[2] \in {"manhattan", "hamming"}
         /\ \A i, j \in DOMAIN X : MetricDistance(X[i], X[j]) <= d_max) =>
            /\ frame.exc = "None"
            /\ frame.ret =
                   PyTuple(<<Arr([i \in DOMAIN X |-> [r \in 0..d_max |->
                                 Cardinality({j \in DOMAIN X :
                                     MetricDistance(X[i], X[j]) <= r})]]),
                             None>>)

====
